---- MODULE Spec2Model ----
(***************************************************************************)
(* Model of the karaoke builder of src/karaoke_live/app2.py.               *)
(*                                                                         *)
(*  - SpecExtract: one call of vocal_cancel_mid_side on an arbitrary       *)
(*    decoded buffer (mono or stereo, any length, samples not clamped).    *)
(*  - SpecProc: concurrent process() requests over the shared DATA_DIR.    *)
(*                                                                         *)
(* Samples are exact rationals.  A buffer is [sr, data, den]: data is the  *)
(* sequence of channels (planar), each a sequence of integer numerators,   *)
(* and the value of a sample is numerator / den.  The array sf.read        *)
(* returns has den = One (One ticks = 1.0).  M, S, M_low and the           *)
(* recombined buffer are carried in half-ticks (den = 2*One), which makes  *)
(* the factor 0.5 of the decomposition exact.                              *)
(***************************************************************************)
EXTENDS Integers, Sequences, FiniteSets, TLC

VARIABLES
    src_wav,        \* SpecExtract: the buffer sf.read returns for src_wav
    keep_bass_hz,   \* SpecExtract: the cutoff argument
    out_wav,        \* SpecExtract: what sf.write stored at out_wav (NoFile if nothing)
    xpc,            \* SpecExtract: "call" | "returned" | "raised"
    loc,            \* SpecExtract: the locals of the call when it ended
    fs,             \* SpecProc: DATA_DIR, directory and file name -> content
    rq,             \* SpecProc: the process() call of each request
    handles,        \* SpecProc: the files each request holds open
    push_configured, \* SpecProc: PUSH_URL and PUSH_TOKEN are both set
    BASE_URL,       \* SpecSites: the module global of src/app.py
    sq,             \* SpecSites: the /similar-sites requests
    all_songs,      \* SpecDownload: SONGS_DIR, file name -> mtime (0: no such file)
    clock,          \* SpecDownload: the time of the last file written
    ffmpeg_ok,      \* SpecDownload: ensure_ffmpeg() finds an ffmpeg
    dl,             \* SpecDownload: the last /download request and its response
    ndl,            \* SpecDownload: how many /download requests were handled
    url,            \* SpecSanitize: the argument of sanitize_to_single_video
    clean,          \* SpecSanitize: what it returned
    zpc             \* SpecSanitize: "call" | "returned"

evars == <<src_wav, keep_bass_hz, out_wav, xpc, loc>>
pvars == <<fs, rq, handles, push_configured>>
svars == <<BASE_URL, sq>>
vars == <<src_wav, keep_bass_hz, out_wav, xpc, loc, fs, rq, handles, push_configured,
          BASE_URL, sq, all_songs, clock, ffmpeg_ok, dl, ndl, url, clean, zpc>>
zvars == <<url, clean, zpc>>
SanitizeOff == url = <<>> /\ clean = <<>> /\ zpc = "off"
dvars == <<all_songs, clock, ffmpeg_ok, dl, ndl>>
DownloadOff ==
    all_songs = <<>> /\ clock = 0 /\ ffmpeg_ok = FALSE /\ dl = <<>> /\ ndl = 0

----------------------------------------------------------------------------
(* Bounds and constants                                                    *)

One == 120            \* ticks of the literal 1.0 (full scale)
FilterOrder == 4      \* butter(4, ...)
MaxLevel == 2         \* input samples are Level * Step, |Level| <= MaxLevel
MaxExtra == 1         \* longest input has PadLen + MaxExtra frames
MaxDownloads == 3     \* /download requests handled in a run
MaxParams == 2        \* query parameters of a URL
LOWPASS_HZ == 120     \* os.getenv default
SAMPLE_RATE == 44100  \* os.getenv default

Step == (3 * One) \div 4
Levels == (-MaxLevel)..MaxLevel
SampleRates == {8000, 44100}
Cutoffs == {0, 120, 4000, 30000}

NoFile == [sr |-> 0, data |-> <<>>, den |-> 0]

----------------------------------------------------------------------------
(* Arithmetic helpers                                                      *)

Abs(x) == IF x < 0 THEN -x ELSE x

\* a / q rounded to nearest, halves away from zero (q > 0)
RDiv(a, q) == IF a >= 0 THEN (2 * a + q) \div (2 * q) ELSE -((2 * (-a) + q) \div (2 * q))

Reverse(s) == [i \in 1..Len(s) |-> s[Len(s) + 1 - i]]

SetMax(T) == CHOOSE m \in T : \A t \in T : t <= m

\* np.max(np.abs(out)) over every sample of every channel
MaxAbs(data) == SetMax({0} \cup {Abs(data[c][i]) : c \in 1..Len(data), i \in 1..Len(data[1])})

Frames(buf) == Len(buf.data[1])

----------------------------------------------------------------------------
(* The low-pass filter: scipy.signal.butter and sosfiltfilt as the code    *)
(* calls them.  A second-order section is [b0, a1, a2, q]: the transfer    *)
(* function b0 (1 + z^-1)^2 / (q + a1 z^-1 + a2 z^-2) in fixed point with  *)
(* scale q; every section has gain 1 at DC (4 b0 = q + a1 + a2).  The      *)
(* coefficients are the bilinear-transform Butterworth design of order 4   *)
(* at Wn = cutoff_hz / (sr / 2), rounded to q = 2^16.                      *)

PadLen == 3 * (FilterOrder + 1)   \* sosfiltfilt's default padlen: 3 * ntaps

Sec(b0, a1, a2) == [b0 |-> b0, a1 |-> a1, a2 |-> a2, q |-> 65536]

\* butter(4, Wn, btype="low", output="sos") for the Wn of the modelled inputs
ButterSections(sr, cutoff_hz) ==
    CASE sr = 8000  /\ cutoff_hz = 120  -> <<Sec(140, -125954, 60978), Sec(134, -120052, 55052)>>
      [] sr = 44100 /\ cutoff_hz = 120  -> <<Sec(5, -130201, 64685), Sec(5, -129015, 63499)>>
      [] sr = 44100 /\ cutoff_hz = 4000 -> <<Sec(4293, -91470, 43106), Sec(3456, -73646, 21934)>>
      [] OTHER -> <<>>   \* no design is tabulated for any other Wn

\* faulty variant: the Nyquist frequency itself accepted: Wn <= 1
WnValidUpToNyquist(sr, cutoff_hz) == 0 < 2 * cutoff_hz /\ 2 * cutoff_hz <= sr

\* butter raises ValueError unless 0 < Wn < 1, with Wn = cutoff_hz / (sr / 2)
WnValid(sr, cutoff_hz) == 0 < 2 * cutoff_hz /\ 2 * cutoff_hz < sr

butter_lowpass_sos(sr, cutoff_hz) ==
    IF WnValid(sr, cutoff_hz)
    THEN [ok |-> TRUE, sos |-> ButterSections(sr, cutoff_hz)]
    ELSE [ok |-> FALSE, sos |-> <<>>]

\* one section over x from index n on; x1, x2, y1, y2 are the two previous
\* inputs and outputs
RECURSIVE Biquad(_, _, _, _, _, _, _)
Biquad(sec, x, n, x1, x2, y1, y2) ==
    IF n > Len(x) THEN <<>>
    ELSE LET y == RDiv(sec.b0 * (x[n] + 2 * x1 + x2) - sec.a1 * y1 - sec.a2 * y2, sec.q)
         IN  <<y>> \o Biquad(sec, x, n + 1, x[n], x1, y, y1)

\* sosfilt(sos, x, zi = sosfilt_zi(sos) * x0): the cascade, every section
\* started in the steady state of a constant input x0
RECURSIVE sosfilt(_, _, _)
sosfilt(sos, x, x0) ==
    IF sos = <<>> THEN x
    ELSE sosfilt(Tail(sos), Biquad(Head(sos), x, 1, x0, x0, x0, x0), x0)

\* odd_ext(x, n): x extended by n samples at each end, reflected about the
\* end points
odd_ext(x, n) ==
    LET N == Len(x)
    IN  [j \in 1..n |-> 2 * x[1] - x[n + 2 - j]] \o x \o [j \in 1..n |-> 2 * x[N] - x[N - j]]

\* sosfiltfilt(sos, x): ValueError unless len(x) > padlen; then forward and
\* backward over the padded signal, padding removed
sosfiltfilt(sos, x) ==
    IF Len(x) <= PadLen THEN [ok |-> FALSE, y |-> <<>>]
    ELSE LET ext == odd_ext(x, PadLen)
             fwd == sosfilt(sos, ext, ext[1])
             rev == Reverse(fwd)
             bwd == Reverse(sosfilt(sos, rev, rev[1]))
         IN  [ok |-> TRUE, y |-> SubSeq(bwd, PadLen + 1, Len(bwd) - PadLen)]

----------------------------------------------------------------------------
(* vocal_cancel_mid_side                                                   *)

NoLocals == [stage |-> "call", M |-> <<>>, S |-> <<>>, designed |-> FALSE,
             M_low |-> <<>>, out |-> <<>>, peak |-> 0, scaled |-> FALSE]

\* M = 0.5*(L+R), S = 0.5*(L-R), in half-ticks
Mid(L, R) == [i \in 1..Len(L) |-> L[i] + R[i]]
Side(L, R) == [i \in 1..Len(L) |-> L[i] - R[i]]

\* faulty variant: the sign of S lost in the right channel
RecombineSameSign(S, M_low) ==
    << [i \in 1..Len(S) |-> S[i] + M_low[i]], [i \in 1..Len(S) |-> S[i] + M_low[i]] >>

\* outL, outR = S + M_low, (-S) + M_low; out = np.stack([outL, outR], axis=1)
Recombine(S, M_low) ==
    << [i \in 1..Len(S) |-> S[i] + M_low[i]], [i \in 1..Len(S) |-> (-S[i]) + M_low[i]] >>

\* faulty variant: the peak taken over the left channel only
PeakLeftOnly(out) == IF MaxAbs(<<out[1]>>) = 0 THEN 2 * One ELSE MaxAbs(<<out[1]>>)

\* peak = float(np.max(np.abs(out)) or 1.0), in half-ticks
Peak(out) == IF MaxAbs(out) = 0 THEN 2 * One ELSE MaxAbs(out)

\* faulty variant: divides by the peak whatever it is, boosting quiet output
NormalizeAlways(out, peak, sr) == [sr |-> sr, data |-> out, den |-> peak]

\* if peak > 1.0: out /= peak
Normalize(out, peak, sr) ==
    IF peak > 2 * One THEN [sr |-> sr, data |-> out, den |-> peak]
                      ELSE [sr |-> sr, data |-> out, den |-> 2 * One]

\* faulty variant: the mono branch peak-normalizes like the stereo branch
PassThroughNormalized(buf) ==
    [written |-> [buf EXCEPT !.den = IF MaxAbs(buf.data) > One THEN MaxAbs(buf.data) ELSE One],
     loc |-> [NoLocals EXCEPT !.stage = "mono"]]

\* if data.shape[1] == 1: sf.write(str(out_wav), data, sr); return
PassThrough(buf) == [written |-> buf, loc |-> [NoLocals EXCEPT !.stage = "mono"]]

\* The whole call on the buffer `buf` read from src_wav.  Returns what was
\* written (NoFile when the call raised before sf.write) and the locals.
vocal_cancel_mid_side(buf, hz) ==
    IF Len(buf.data) = 1
    THEN PassThrough(buf)
    ELSE LET L == buf.data[1]
             R == buf.data[2]
             M == Mid(L, R)
             S == Side(L, R)
             d == butter_lowpass_sos(buf.sr, hz)
         IN  IF ~d.ok
             THEN [written |-> NoFile,
                   loc |-> [NoLocals EXCEPT !.stage = "design_error", !.M = M, !.S = S]]
             ELSE LET f == sosfiltfilt(d.sos, M)
                  IN  IF ~f.ok
                      THEN [written |-> NoFile,
                            loc |-> [NoLocals EXCEPT !.stage = "filter_error", !.M = M,
                                                     !.S = S, !.designed = TRUE]]
                      ELSE LET out == Recombine(S, f.y)
                               peak == Peak(out)
                           IN  [written |-> Normalize(out, peak, buf.sr),
                                loc |-> [stage |-> "written", M |-> M, S |-> S,
                                         designed |-> TRUE, M_low |-> f.y, out |-> out,
                                         peak |-> peak, scaled |-> peak > 2 * One]]

----------------------------------------------------------------------------
(* SpecExtract: one call on an arbitrary buffer                            *)

FrameCounts == {0, 1, PadLen} \cup ((PadLen + 1)..(PadLen + MaxExtra))

\* a channel of n frames repeating the two levels a, b
Channel(n, a, b) == [i \in 1..n |-> (IF i % 2 = 1 THEN a ELSE b) * Step]

MonoBuffers ==
    {[sr |-> sr, data |-> <<Channel(n, a, b)>>, den |-> One] :
        sr \in SampleRates, n \in FrameCounts, a \in Levels, b \in Levels}

StereoBuffers ==
    {[sr |-> q[1], data |-> <<Channel(q[2], p[1], p[2]), Channel(q[2], p[3], p[4])>>, den |-> One] :
        q \in SampleRates \X FrameCounts, p \in Levels \X Levels \X Levels \X Levels}

InitExtract ==
    /\ src_wav \in MonoBuffers \cup StereoBuffers
    /\ keep_bass_hz \in Cutoffs
    /\ out_wav = NoFile
    /\ xpc = "call"
    /\ loc = NoLocals
    /\ fs = <<>> /\ rq = <<>> /\ handles = <<>> /\ push_configured = FALSE
    /\ BASE_URL = <<>> /\ sq = <<>>
    /\ DownloadOff
    /\ SanitizeOff

Extract ==
    /\ xpc = "call"
    /\ \E r \in {vocal_cancel_mid_side(src_wav, keep_bass_hz)} :
           /\ loc' = r.loc
           /\ out_wav' = r.written
           /\ xpc' = IF r.loc.stage \in {"mono", "written"} THEN "returned" ELSE "raised"
    /\ UNCHANGED <<src_wav, keep_bass_hz>>
    /\ UNCHANGED pvars /\ UNCHANGED svars /\ UNCHANGED dvars /\ UNCHANGED zvars

NextExtract == Extract

SpecExtract == InitExtract /\ [][NextExtract]_vars

----------------------------------------------------------------------------
(* process(): the pipeline of one /process request over DATA_DIR           *)

Requests == {1, 2}
Vids == {"a", "b", "c"}
SharedDir == "."
Dirs == Vids \cup {SharedDir}
Names == {"source.m4a", "source.wav", "instrumental.wav", "instrumental.mp3",
          "original.mp3", "lyrics.vtt", "lyrics.lrc"}

\* the audio yt-dlp downloads for each video: "a" stereo within full scale,
\* "b" mono with samples above 1.0, "c" stereo of a single frame
MediaOf(v) ==
    LET n == PadLen + MaxExtra
    IN  CASE v = "a" -> [media |-> [sr |-> SAMPLE_RATE, den |-> One,
                                    data |-> <<Channel(n, 1, 0), Channel(n, 0, -1)>>]]
          [] v = "b" -> [media |-> [sr |-> SAMPLE_RATE, den |-> One,
                                    data |-> <<Channel(n, 2, -1)>>]]
          [] v = "c" -> [media |-> [sr |-> SAMPLE_RATE, den |-> One,
                                    data |-> <<Channel(1, 1, 1), Channel(1, -1, -1)>>]]

TextOf(v, kind) == [text |-> <<v, kind>>]

Clip(x) == IF x > One THEN One ELSE IF x < -One THEN -One ELSE x

\* ffmpeg -i src -ac 2 -ar sr out_wav: two channels (a mono source on both),
\* 16-bit PCM, so nothing outside full scale survives
to_wav(content, sr) ==
    LET d == content.media.data
        two == IF Len(d) = 1 THEN <<d[1], d[1]>> ELSE d
    IN  [sr |-> sr, den |-> One,
         data |-> [c \in 1..2 |-> [i \in 1..Len(two[c]) |-> Clip(two[c][i])]]]

\* ffmpeg ... -c:a libmp3lame: the encoded form of `content`
Mp3(content) == [mp3 |-> content]

\* faulty variant: every video's files in one shared directory
base_shared(vid) == SharedDir

\* base = DATA_DIR / vid
base(vid) == vid

NoRequest == [pc |-> "idle", vid |-> "", src |-> "", data |-> NoFile, written |-> NoFile,
              lyrics_url |-> "", lyrics |-> "", push |-> "none", sent |-> <<>>]

Exists(dir, name) == fs[<<dir, name>>] # NoFile

Dir(r) == base(rq[r].vid)

Write(dir, name, content) == fs' = [fs EXCEPT ![<<dir, name>>] = content]

Goto(r, pc) == rq' = [rq EXCEPT ![r].pc = pc]

InitProc ==
    /\ fs = [p \in Dirs \X Names |-> NoFile]
    /\ rq = [r \in Requests |-> NoRequest]
    /\ handles = [r \in Requests |-> {}]
    /\ push_configured \in BOOLEAN
    /\ src_wav = NoFile /\ keep_bass_hz = LOWPASS_HZ /\ out_wav = NoFile
    /\ xpc = "off" /\ loc = NoLocals
    /\ BASE_URL = <<>> /\ sq = <<>>
    /\ DownloadOff
    /\ SanitizeOff

\* ydl.extract_info(url, download=True): DownloadError, or the media stored
\* as base/source.<ext>
Download(r) ==
    /\ rq[r].pc = "idle"
    /\ \E v \in Vids :
          \/ /\ rq' = [rq EXCEPT ![r].pc = "failed", ![r].vid = v]
             /\ UNCHANGED fs
          \/ /\ rq' = [rq EXCEPT ![r].pc = "pick", ![r].vid = v]
             /\ Write(base(v), "source.m4a", MediaOf(v))
    /\ UNCHANGED <<handles, push_configured>> /\ UNCHANGED evars /\ UNCHANGED svars /\ UNCHANGED dvars /\ UNCHANGED zvars

\* src = next((p for p in base.iterdir() if p.name.startswith("source.")), None):
\* the first such entry in the directory's order, which is arbitrary
PickSrc(r) ==
    /\ rq[r].pc = "pick"
    /\ \E n \in {"source.m4a", "source.wav"} :
          /\ Exists(Dir(r), n)
          /\ rq' = [rq EXCEPT ![r].pc = "to_wav", ![r].src = n]
    /\ UNCHANGED <<fs, handles, push_configured>> /\ UNCHANGED evars /\ UNCHANGED svars /\ UNCHANGED dvars /\ UNCHANGED zvars

\* to_wav(src, wav, SAMPLE_RATE); ffmpeg refuses an output that is its input
ToWav(r) ==
    /\ rq[r].pc = "to_wav"
    /\ IF rq[r].src = "source.wav"
       THEN Goto(r, "failed") /\ UNCHANGED fs
       ELSE /\ Write(Dir(r), "source.wav", to_wav(fs[<<Dir(r), rq[r].src>>], SAMPLE_RATE))
            /\ Goto(r, "read")
    /\ UNCHANGED <<handles, push_configured>> /\ UNCHANGED evars /\ UNCHANGED svars /\ UNCHANGED dvars /\ UNCHANGED zvars

\* vocal_cancel_mid_side(wav, inst_wav, keep_bass_hz=LOWPASS_HZ): sf.read
ExtractRead(r) ==
    /\ rq[r].pc = "read"
    /\ rq' = [rq EXCEPT ![r].pc = "cancel", ![r].data = fs[<<Dir(r), "source.wav">>]]
    /\ UNCHANGED <<fs, handles, push_configured>> /\ UNCHANGED evars /\ UNCHANGED svars /\ UNCHANGED dvars /\ UNCHANGED zvars

\* ... and the rest of the call, to its sf.write or its exception
ExtractWrite(r) ==
    /\ rq[r].pc = "cancel"
    /\ \E res \in {vocal_cancel_mid_side(rq[r].data, LOWPASS_HZ)} :
          IF res.loc.stage \in {"mono", "written"}
          THEN /\ Write(Dir(r), "instrumental.wav", res.written)
               /\ rq' = [rq EXCEPT ![r].pc = "enc_inst", ![r].written = res.written]
          ELSE Goto(r, "failed") /\ UNCHANGED fs
    /\ UNCHANGED <<handles, push_configured>> /\ UNCHANGED evars /\ UNCHANGED svars /\ UNCHANGED dvars /\ UNCHANGED zvars

\* encode_mp3(inst_wav, inst_mp3, AUDIO_BR)
EncodeInst(r) ==
    /\ rq[r].pc = "enc_inst"
    /\ Write(Dir(r), "instrumental.mp3", Mp3(fs[<<Dir(r), "instrumental.wav">>]))
    /\ Goto(r, "enc_orig")
    /\ UNCHANGED <<handles, push_configured>> /\ UNCHANGED evars /\ UNCHANGED svars /\ UNCHANGED dvars /\ UNCHANGED zvars

\* export_original_mp3(src, orig_mp3, AUDIO_BR)
ExportOriginal(r) ==
    /\ rq[r].pc = "enc_orig"
    /\ Write(Dir(r), "original.mp3", Mp3(fs[<<Dir(r), rq[r].src>>]))
    /\ Goto(r, "lyrics")
    /\ UNCHANGED <<handles, push_configured>> /\ UNCHANGED evars /\ UNCHANGED svars /\ UNCHANGED dvars /\ UNCHANGED zvars

\* captions saved as lyrics.vtt, else LRCLIB lyrics saved as lyrics.lrc, else
\* nothing: what the video offers and the network decide
Lyrics(r) ==
    /\ rq[r].pc = "lyrics"
    /\ \/ /\ Write(Dir(r), "lyrics.vtt", TextOf(rq[r].vid, "vtt"))
          /\ rq' = [rq EXCEPT ![r].pc = "push", ![r].lyrics_url = "lyrics.vtt"]
       \/ /\ Write(Dir(r), "lyrics.lrc", TextOf(rq[r].vid, "lrc"))
          /\ rq' = [rq EXCEPT ![r].pc = "push", ![r].lyrics_url = "lyrics.lrc"]
       \/ /\ Goto(r, "push") /\ UNCHANGED fs
    /\ UNCHANGED <<handles, push_configured>> /\ UNCHANGED evars /\ UNCHANGED svars /\ UNCHANGED dvars /\ UNCHANGED zvars

\* the lyrics argument of push_to_host: vtt_path if it exists, else lrc_path
\* if it exists, else None
LyricsArg(r) ==
    IF Exists(Dir(r), "lyrics.vtt") THEN "lyrics.vtt"
    ELSE IF Exists(Dir(r), "lyrics.lrc") THEN "lyrics.lrc" ELSE ""

\* push_to_host up to its try: nothing when not configured, else the files
\* opened for reading
PushOpen(r) ==
    /\ rq[r].pc = "push"
    /\ IF ~push_configured
       THEN /\ rq' = [rq EXCEPT ![r].pc = "respond", ![r].push = "skipped"]
            /\ UNCHANGED handles
       ELSE /\ rq' = [rq EXCEPT ![r].pc = "post", ![r].lyrics = LyricsArg(r)]
            /\ handles' = [handles EXCEPT ![r] =
                   {"instrumental.mp3", "original.mp3"} \cup
                   (IF LyricsArg(r) # "" THEN {LyricsArg(r)} ELSE {})]
    /\ UNCHANGED <<fs, push_configured>> /\ UNCHANGED evars /\ UNCHANGED svars /\ UNCHANGED dvars /\ UNCHANGED zvars

\* what requests.post reads through the open handles
Payload(r) == [n \in handles[r] |-> fs[<<Dir(r), n>>]]

\* faulty variant: the handles closed only after a successful post: no finally
PushPostNoFinally(r) ==
    /\ rq[r].pc = "post"
    /\ \/ /\ rq' = [rq EXCEPT ![r].pc = "respond", ![r].push = "ok", ![r].sent = Payload(r)]
          /\ handles' = [handles EXCEPT ![r] = {}]
       \/ /\ \E e \in {"network_error", "http_error"} :
                rq' = [rq EXCEPT ![r].pc = "failed", ![r].push = e]
          /\ UNCHANGED handles
    /\ UNCHANGED <<fs, push_configured>> /\ UNCHANGED evars /\ UNCHANGED svars /\ UNCHANGED dvars /\ UNCHANGED zvars

\* the try of push_to_host: the post succeeds, or raises (network error, or
\* raise_for_status on a non-2xx answer); finally every handle is closed
PushPost(r) ==
    /\ rq[r].pc = "post"
    /\ \/ rq' = [rq EXCEPT ![r].pc = "respond", ![r].push = "ok", ![r].sent = Payload(r)]
       \/ \E e \in {"network_error", "http_error"} :
             rq' = [rq EXCEPT ![r].pc = "failed", ![r].push = e]
    /\ handles' = [handles EXCEPT ![r] = {}]
    /\ UNCHANGED <<fs, push_configured>> /\ UNCHANGED evars /\ UNCHANGED svars /\ UNCHANGED dvars /\ UNCHANGED zvars

\* the response dict is built and returned
Respond(r) ==
    /\ rq[r].pc = "respond"
    /\ Goto(r, "ok")
    /\ UNCHANGED <<fs, handles, push_configured>> /\ UNCHANGED evars /\ UNCHANGED svars /\ UNCHANGED dvars /\ UNCHANGED zvars

NextProc ==
    \E r \in Requests :
        \/ Download(r)
        \/ PickSrc(r)
        \/ ToWav(r)
        \/ ExtractRead(r)
        \/ ExtractWrite(r)
        \/ EncodeInst(r)
        \/ ExportOriginal(r)
        \/ Lyrics(r)
        \/ PushOpen(r)
        \/ PushPost(r)
        \/ Respond(r)

SpecProc == InitProc /\ [][NextProc]_vars

----------------------------------------------------------------------------
(* GET /similar-sites of src/app.py                                        *)
(*                                                                         *)
(* A prefix is [stem, slashes]: the text up to its trailing slashes and    *)
(* how many of them follow.  NoPrefix is the absent (or empty) query       *)
(* parameter.  A domain argument is [www, host]: whether it carries a      *)
(* leading "www." and the host that follows.                               *)

SiteRequests == {1, 2}
DefaultPrefix == [stem |-> "https://www.similarsites.com/site", slashes |-> 1]
NoPrefix == [stem |-> "", slashes |-> 0]
Prefixes == {[stem |-> "https://mirror.test/site", slashes |-> 0],
             [stem |-> "https://other.test/s", slashes |-> 2]}
DomainArgs == {[www |-> TRUE, host |-> "example.com", dotted |-> TRUE],
               [www |-> FALSE, host |-> "localhost", dotted |-> FALSE]}

\* BASE_URL.rstrip('/')
rstrip(prefix) == prefix.stem

\* normalize_domain: the host without its "www."; ValueError unless it has a dot
normalize_domain(d) ==
    IF d.dotted THEN [ok |-> TRUE, host |-> d.host] ELSE [ok |-> FALSE, host |-> ""]

\* url = f"{BASE_URL.rstrip('/')}/{domain}"
SiteUrl(prefix, domain) == [stem |-> rstrip(prefix), domain |-> domain]

NoSiteRequest == [pc |-> "idle", prefix_url |-> NoPrefix, domain |-> [www |-> FALSE, host |-> "", dotted |-> FALSE],
                  source |-> [stem |-> "", domain |-> ""], status |-> 0]

InitSites ==
    /\ BASE_URL = DefaultPrefix
    /\ sq = [r \in SiteRequests |-> NoSiteRequest]
    /\ src_wav = NoFile /\ keep_bass_hz = LOWPASS_HZ /\ out_wav = NoFile
    /\ xpc = "off" /\ loc = NoLocals
    /\ fs = <<>> /\ rq = <<>> /\ handles = <<>> /\ push_configured = FALSE
    /\ DownloadOff
    /\ SanitizeOff

\* a request arrives with its query parameters
SiteArrive(r) ==
    /\ sq[r].pc = "idle"
    /\ \E p \in Prefixes \cup {NoPrefix}, d \in DomainArgs :
          sq' = [sq EXCEPT ![r].pc = "handler", ![r].prefix_url = p, ![r].domain = d]
    /\ UNCHANGED BASE_URL /\ UNCHANGED evars /\ UNCHANGED pvars /\ UNCHANGED dvars /\ UNCHANGED zvars

\* similar_sites up to the override: 401 on a bad token; else
\* global BASE_URL; if prefix_url: BASE_URL = prefix_url
SiteOverride(r) ==
    /\ sq[r].pc = "handler"
    /\ \/ /\ sq' = [sq EXCEPT ![r].pc = "done", ![r].status = 401]
          /\ UNCHANGED BASE_URL
       \/ /\ sq' = [sq EXCEPT ![r].pc = "fetch"]
          /\ BASE_URL' = IF sq[r].prefix_url # NoPrefix THEN sq[r].prefix_url ELSE BASE_URL
    /\ UNCHANGED evars /\ UNCHANGED pvars /\ UNCHANGED dvars /\ UNCHANGED zvars

\* the rest of similar_sites: 400 on an invalid domain; else
\* fetch_similar_sites builds the url from the global as it is now and gets it
SiteFetch(r) ==
    /\ sq[r].pc = "fetch"
    /\ \E n \in {normalize_domain(sq[r].domain)} :
          IF ~n.ok
          THEN sq' = [sq EXCEPT ![r].pc = "done", ![r].status = 400]
          ELSE \E st \in {200, 502} :
                  sq' = [sq EXCEPT ![r].pc = "done", ![r].status = st,
                                   ![r].source = SiteUrl(BASE_URL, n.host)]
    /\ UNCHANGED BASE_URL /\ UNCHANGED evars /\ UNCHANGED pvars /\ UNCHANGED dvars /\ UNCHANGED zvars

NextSites ==
    \E r \in SiteRequests :
        \/ SiteArrive(r)
        \/ SiteOverride(r)
        \/ SiteFetch(r)

SpecSites == InitSites /\ [][NextSites]_vars

----------------------------------------------------------------------------
(* POST /download of src/karaoke_live/app.py                               *)
(*                                                                         *)
(* download_song is an async def with no await in it: the event loop runs  *)
(* one call from its first line to its return before it starts the next.   *)

Titles == {"A", "B"}
AudioExts == {"mp3", "m4a"}
SongFiles == {[title |-> t, ext |-> x] : t \in Titles, x \in AudioExts}

\* what yt-dlp leaves for a video: <title>.mp3 when the FFmpegExtractAudio
\* postprocessor runs, the downloaded <title>.m4a when there is no ffmpeg
OutputFile(t) == [title |-> t, ext |-> IF ffmpeg_ok THEN "mp3" ELSE "m4a"]

Present(songs) == {f \in SongFiles : songs[f] > 0}

\* the loop of lines 279-286: a file of the greatest mtime; among equal
\* mtimes the first in the directory's order, which is arbitrary
Newest(songs) == {f \in Present(songs) : \A g \in Present(songs) : songs[g] <= songs[f]}

\* ydl.download([target_url]) returned: the postprocessor rewrote <title>.mp3,
\* or the media was stored; yt-dlp leaves a media file that is already there
\* as it is ("has already been downloaded")
AfterDownload(songs, t) ==
    IF ~ffmpeg_ok /\ songs[OutputFile(t)] > 0
    THEN songs
    ELSE [songs EXCEPT ![OutputFile(t)] = clock + 1]

InitDownload ==
    /\ all_songs \in [SongFiles -> {0, 1}]
    /\ clock = 1
    /\ ffmpeg_ok \in BOOLEAN
    /\ dl = [video |-> "", status |-> 0, filename |-> [title |-> "", ext |-> ""]]
    /\ ndl = 0
    /\ src_wav = NoFile /\ keep_bass_hz = LOWPASS_HZ /\ out_wav = NoFile
    /\ xpc = "off" /\ loc = NoLocals
    /\ fs = <<>> /\ rq = <<>> /\ handles = <<>> /\ push_configured = FALSE
    /\ BASE_URL = <<>> /\ sq = <<>>
    /\ SanitizeOff

Answer(t, status, f) ==
    /\ dl' = [video |-> t, status |-> status, filename |-> f]
    /\ ndl' = ndl + 1

NoName == [title |-> "", ext |-> ""]

\* download_song, the whole call; "" is a missing or blank url
download_song ==
    /\ ndl < MaxDownloads
    /\ \E t \in Titles \cup {""} :
          IF t = ""
          THEN Answer(t, 400, NoName) /\ UNCHANGED <<all_songs, clock>>
          ELSE \/ \* ydl.download raised
                  Answer(t, 500, NoName) /\ UNCHANGED <<all_songs, clock>>
               \/ \E songs \in {AfterDownload(all_songs, t)} :
                     /\ all_songs' = songs
                     /\ clock' = IF songs = all_songs THEN clock ELSE clock + 1
                     /\ IF Newest(songs) = {}
                        THEN Answer(t, 500, NoName)
                        ELSE \E f \in Newest(songs) : Answer(t, 200, f)
    /\ UNCHANGED ffmpeg_ok
    /\ UNCHANGED evars /\ UNCHANGED pvars /\ UNCHANGED svars /\ UNCHANGED zvars

NextDownload == download_song

SpecDownload == InitDownload /\ [][NextDownload]_vars

----------------------------------------------------------------------------
(* sanitize_to_single_video of src/karaoke_live/app.py                     *)
(*                                                                         *)
(* A URL is [host, path, query]: the netloc as written, the path as its    *)
(* sequence of segments, and the query as the sequence of its key=value    *)
(* pairs in the order written.                                             *)

Hosts == {"youtu.be", "WWW.YouTube.com", "music.youtube.com", "example.org"}
Paths == {<<>>, <<"abc">>, <<"watch">>, <<"abc", "x">>}
Keys == {"v", "list", "t"}
Values == {"", "id1", "id2"}
Pairs == Keys \X Values
Queries == UNION {[1..n -> Pairs] : n \in 0..MaxParams}
Urls == {[host |-> h, path |-> p, query |-> q] : h \in Hosts, p \in Paths, q \in Queries}

\* u.netloc.lower()
Lower(h) == IF h = "WWW.YouTube.com" THEN "www.youtube.com" ELSE h

YouTubeHosts == {"www.youtube.com", "youtube.com", "m.youtube.com", "music.youtube.com",
                 "youtu.be", "www.youtu.be"}

_SINGLE_VIDEO_SAFE_PARAMS == {"v", "t", "time_continue"}

\* parse_qsl(u.query or ""): the pairs in order, those with a blank value dropped
parse_qsl(q) == SelectSeq(q, LAMBDA kv : kv[2] # "")

QKeys(q) == {q[i][1] : i \in 1..Len(q)}

\* dict(pairs): a key stays where it first stood and holds its last value
RECURSIVE dict(_)
dict(pairs) ==
    IF pairs = <<>> THEN <<>>
    ELSE LET init == dict(SubSeq(pairs, 1, Len(pairs) - 1))
             kv == pairs[Len(pairs)]
         IN  IF kv[1] \in QKeys(init)
             THEN [i \in 1..Len(init) |-> IF init[i][1] = kv[1] THEN kv ELSE init[i]]
             ELSE Append(init, kv)

\* new_q["v"] = video_id
SetItem(d, k, v) == dict(d \o <<(<<k, v>>)>>)

\* {k: v for k, v in q.items() if k in _SINGLE_VIDEO_SAFE_PARAMS}
SafeOnly(d) == SelectSeq(d, LAMBDA kv : kv[1] \in _SINGLE_VIDEO_SAFE_PARAMS)

\* u.path.strip("/").split("/")[0]
FirstSegment(path) == IF path = <<>> THEN "" ELSE path[1]

\* the function; nothing in it raises on a URL of this form
sanitize_to_single_video(u) ==
    LET host == Lower(u.host)
        q == dict(parse_qsl(u.query))
        video_id == FirstSegment(u.path)
    IN  IF host \notin YouTubeHosts THEN u
        ELSE IF host \in {"youtu.be", "www.youtu.be"} /\ video_id # ""
        THEN [host |-> "www.youtube.com", path |-> <<"watch">>,
              query |-> SetItem(q, "v", video_id)]
        ELSE IF "v" \in QKeys(q)
        THEN [host |-> u.host, path |-> <<"watch">>, query |-> SafeOnly(q)]
        ELSE u

InitSanitize ==
    /\ url \in Urls
    /\ clean = <<>>
    /\ zpc = "call"
    /\ src_wav = NoFile /\ keep_bass_hz = LOWPASS_HZ /\ out_wav = NoFile
    /\ xpc = "off" /\ loc = NoLocals
    /\ fs = <<>> /\ rq = <<>> /\ handles = <<>> /\ push_configured = FALSE
    /\ BASE_URL = <<>> /\ sq = <<>>
    /\ DownloadOff

Sanitize ==
    /\ zpc = "call"
    /\ clean' = sanitize_to_single_video(url)
    /\ zpc' = "returned"
    /\ UNCHANGED url
    /\ UNCHANGED evars /\ UNCHANGED pvars /\ UNCHANGED svars /\ UNCHANGED dvars

NextSanitize == Sanitize

SpecSanitize == InitSanitize /\ [][NextSanitize]_vars

----------------------------------------------------------------------------
(* Claims about one call of the extractor (SpecExtract)                    *)

Ended == xpc # "call"
IsMono == Len(src_wav.data) = 1
IsStereo == Len(src_wav.data) = 2
InFrames == 1..Frames(src_wav)
CutoffValid == WnValid(src_wav.sr, keep_bass_hz)
CutoffAtOrAboveNyquist == 2 * keep_bass_hz >= src_wav.sr
AllZero(x) == \A i \in 1..Len(x) : x[i] = 0

\* every sample of the buffer has absolute value at most 1.0
WithinFullScale(buf) ==
    \A c \in 1..Len(buf.data) : \A i \in 1..Len(buf.data[c]) : Abs(buf.data[c][i]) <= buf.den

\* the buffers a and b hold the same sample values, channel for channel
SameSamples(a, b) ==
    /\ Len(a.data) = Len(b.data)
    /\ \A c \in 1..Len(a.data) :
          /\ Len(a.data[c]) = Len(b.data[c])
          /\ \A i \in 1..Len(a.data[c]) : a.data[c][i] * b.den = b.data[c][i] * a.den

\* C1: a call on a one-channel buffer returns, and what it wrote is the
\* input itself: the same samples in the same order, the same length, one
\* channel, the same sample rate, nothing scaled.
C1_MonoPassThrough ==
    (Ended /\ IsMono) =>
        /\ xpc = "returned"
        /\ out_wav = src_wav
        /\ Len(out_wav.data) = 1
        /\ ~loc.designed

\* a mono call that returned, on a non-empty buffer with a sample above 1.0
\* and a cutoff above Nyquist
C1_Witness ==
    /\ xpc = "returned" /\ IsMono /\ Frames(src_wav) > 1
    /\ ~WithinFullScale(src_wav)
    /\ CutoffAtOrAboveNyquist

C3_Original ==
    (Ended /\ Frames(src_wav) = 0 /\ CutoffValid) =>
        /\ xpc = "raised"
        /\ ~loc.designed
        /\ out_wav = NoFile

\* C4 as stated: whatever a call writes, for any input and valid cutoff,
\* has every sample within [-1, 1].
C4_Original == (xpc = "returned") => WithinFullScale(out_wav)

\* C4 amended: whatever a call on a STEREO buffer writes has every sample of
\* both channels within [-1, 1].
C4_StereoNormalized == (xpc = "returned" /\ IsStereo) => WithinFullScale(out_wav)

\* a stereo call that rescaled: the recombined peak was above 1.0, and it was
\* reached in the right channel only
C4_Witness ==
    /\ xpc = "returned" /\ IsStereo /\ loc.scaled
    /\ MaxAbs(<<loc.out[1]>>) < MaxAbs(<<loc.out[2]>>)
    /\ ~WithinFullScale(src_wav)

\* C5: on stereo input the written samples are the recombined ones divided by
\* their peak exactly when that peak is above 1.0, and the recombined ones
\* themselves otherwise.
C5_NoBoost ==
    (loc.stage = "written") =>
        /\ out_wav.data = loc.out
        /\ out_wav.sr = src_wav.sr
        /\ IF MaxAbs(loc.out) > 2 * One
           THEN out_wav.den = MaxAbs(loc.out)
           ELSE out_wav.den = 2 * One

\* a stereo call whose recombined buffer is quiet (0 < peak < 1.0) and was
\* written unscaled
C5_Witness ==
    /\ loc.stage = "written"
    /\ 0 < MaxAbs(loc.out) /\ MaxAbs(loc.out) < 2 * One
    /\ out_wav.den = 2 * One

\* C6 as stated: a call on an all-zero stereo buffer of N >= 1 frames with a
\* valid cutoff returns an all-zero stereo buffer of N frames.
C6_Original ==
    (Ended /\ IsStereo /\ Frames(src_wav) >= 1 /\ CutoffValid
        /\ AllZero(src_wav.data[1]) /\ AllZero(src_wav.data[2])) =>
        /\ xpc = "returned"
        /\ Len(out_wav.data) = 2
        /\ Len(out_wav.data[1]) = Frames(src_wav) /\ AllZero(out_wav.data[1])
        /\ Len(out_wav.data[2]) = Frames(src_wav) /\ AllZero(out_wav.data[2])
        /\ out_wav.den > 0

\* C7: whenever the recombination runs, at every frame outL = S + M_low and
\* outR = -S + M_low with M = 0.5*(L+R) and S = 0.5*(L-R), so
\* outL - outR = L - R; and when L = R both channels equal M_low, before and
\* after the normalization.
C7_Recombination ==
    (loc.stage = "written") =>
        /\ Len(loc.M_low) = Frames(src_wav)
        /\ Len(loc.out) = 2
        /\ \A c \in 1..2 : Len(loc.out[c]) = Frames(src_wav)
        /\ \A i \in InFrames :
              /\ loc.M[i] = src_wav.data[1][i] + src_wav.data[2][i]
              /\ loc.S[i] = src_wav.data[1][i] - src_wav.data[2][i]
              /\ loc.out[1][i] = loc.S[i] + loc.M_low[i]
              /\ loc.out[2][i] = loc.M_low[i] - loc.S[i]
              /\ (loc.out[1][i] - loc.out[2][i]) * src_wav.den
                     = (src_wav.data[1][i] - src_wav.data[2][i]) * (2 * One)
        /\ (src_wav.data[1] = src_wav.data[2]) =>
              /\ loc.out[1] = loc.M_low /\ loc.out[2] = loc.M_low
              /\ out_wav.data[1] = out_wav.data[2]

\* a call that recombined a buffer with L # R and a non-zero low-passed mid
C7_Witness ==
    /\ loc.stage = "written"
    /\ ~AllZero(loc.S) /\ ~AllZero(loc.M_low)
    /\ loc.out[1] # loc.out[2]

\* C8 as stated: a call on any stereo buffer with R = -L, peak at most 1.0
\* and a valid cutoff has M = 0 and M_low = 0 and returns the input, channel
\* for channel.  (Stated for non-empty buffers; the empty one is C3's.)
C8_Original ==
    (Ended /\ IsStereo /\ CutoffValid /\ WithinFullScale(src_wav)
        /\ Frames(src_wav) >= 1
        /\ \A i \in InFrames : src_wav.data[2][i] = -src_wav.data[1][i]) =>
        /\ xpc = "returned"
        /\ AllZero(loc.M)
        /\ Len(loc.M_low) = Frames(src_wav) /\ AllZero(loc.M_low)
        /\ SameSamples(out_wav, src_wav)

----------------------------------------------------------------------------
(* Claims about concurrent process() requests (SpecProc)                   *)

\* what process() computes for video v when it runs alone on an empty DATA_DIR
AloneOutput ==
    [v \in Vids |-> vocal_cancel_mid_side(to_wav(MediaOf(v), SAMPLE_RATE), LOWPASS_HZ)]

Independent(r) == \A o \in Requests \ {r} : rq[o].vid # rq[r].vid
Extracted(r) == rq[r].written # NoFile
ExtractRaised(r) ==
    rq[r].pc = "failed" /\ rq[r].data # NoFile /\ rq[r].written = NoFile /\ rq[r].push = "none"
Encoded(r) == rq[r].pc \in {"lyrics", "push", "post", "respond", "ok"}

\* C9: what an extractor call writes, or that it raises, depends on the buffer
\* it read and the cutoff alone: every request gets what a run alone gets,
\* equal inputs give equal outputs, and under every interleaving the files of
\* a request whose video no other request works on are the ones of a run alone.
C9_Stateless ==
    /\ \A r \in Requests :
          /\ Extracted(r) => rq[r].written = AloneOutput[rq[r].vid].written
          /\ ExtractRaised(r) => AloneOutput[rq[r].vid].written = NoFile
          /\ (Extracted(r) /\ Independent(r)) =>
                fs[<<rq[r].vid, "instrumental.wav">>] = AloneOutput[rq[r].vid].written
          /\ (Encoded(r) /\ Independent(r)) =>
                /\ fs[<<rq[r].vid, "instrumental.mp3">>] = Mp3(AloneOutput[rq[r].vid].written)
                /\ fs[<<rq[r].vid, "original.mp3">>] = Mp3(MediaOf(rq[r].vid))
    /\ \A r1, r2 \in Requests :
          (Extracted(r1) /\ Extracted(r2) /\ rq[r1].data = rq[r2].data) =>
              rq[r1].written = rq[r2].written

\* one request has finished its pipeline while another, on a different video,
\* is between the extractor's read and its write
C9_Witness ==
    \E r1, r2 \in Requests :
        /\ rq[r1].pc = "ok" /\ Extracted(r1)
        /\ rq[r2].pc = "cancel"
        /\ rq[r1].vid # rq[r2].vid

\* C10: a step of push_to_host, whether the push is skipped, succeeds or
\* raises, changes no file of DATA_DIR, and once the call has ended (returned
\* or raised) the request holds no file open.
C10_PushLeavesFiles ==
    [][\A r \in Requests :
          (rq[r].pc \in {"push", "post"} /\ rq'[r].pc # rq[r].pc) =>
              /\ fs' = fs
              /\ (rq'[r].pc # "post") => handles'[r] = {}]_vars

\* a push that raised on a non-2xx answer after opening both mp3 files and a
\* lyrics file; the files are there and nothing is held open
C10_Witness ==
    \E r \in Requests :
        /\ rq[r].pc = "failed" /\ rq[r].push = "http_error"
        /\ rq[r].lyrics # ""
        /\ handles[r] = {}
        /\ \A n \in {"instrumental.mp3", "original.mp3", rq[r].lyrics} : Exists(Dir(r), n)

----------------------------------------------------------------------------
(* Claims about GET /similar-sites (SpecSites)                             *)

SiteFetched(r) == sq[r].pc = "done" /\ sq[r].status \in {200, 502}

\* C11 as stated: every request that reached the fetch was fetched from its
\* own prefix_url when it supplied one, and from the configured default
\* BASE_URL when it supplied none, whatever other requests supplied.
C11_Original ==
    \A r \in SiteRequests :
        SiteFetched(r) =>
            sq[r].source.stem = IF sq[r].prefix_url # NoPrefix
                                THEN rstrip(sq[r].prefix_url)
                                ELSE rstrip(DefaultPrefix)

----------------------------------------------------------------------------
(* Claims about POST /download (SpecDownload)                              *)

\* C12 as stated: whenever a /download request answers "ok", the file it
\* names is the audio file of the video that request asked for, whatever
\* all_songs held before.
C12_Original == (dl.status = 200) => dl.filename = OutputFile(dl.video)

----------------------------------------------------------------------------
(* Claims about repeated process() calls (SpecProc)                        *)

\* C13 as stated: the file process() selects as src is never the derived
\* source.wav, so to_wav's input and output differ, and original.mp3 is
\* encoded from the downloaded media.
C13_Original ==
    \A r \in Requests :
        /\ rq[r].src # "source.wav"
        /\ Encoded(r) => fs[<<Dir(r), "original.mp3">>] = Mp3(MediaOf(rq[r].vid))

----------------------------------------------------------------------------
(* Claims about sanitize_to_single_video (SpecSanitize)                    *)

Recognised(u) == Lower(u.host) \in YouTubeHosts
ShortLink(u) == Lower(u.host) \in {"youtu.be", "www.youtu.be"} /\ FirstSegment(u.path) # ""
HasV(u) == \E i \in 1..Len(u.query) : u.query[i][1] = "v" /\ u.query[i][2] # ""
\* the video the URL identifies: the short link's path id, else the last v
VideoOf(u) ==
    IF ShortLink(u) THEN FirstSegment(u.path)
    ELSE LET I == {i \in 1..Len(u.query) : u.query[i][1] = "v" /\ u.query[i][2] # ""}
         IN  u.query[CHOOSE i \in I : \A j \in I : j <= i][2]

\* C14 as stated: the call returns; for a URL on a recognised host that
\* identifies a video the result is a /watch URL whose query holds that id as
\* v and no key outside {v, t, time_continue}; a URL on any other host comes
\* back unchanged.
C14_Original ==
    (zpc = "returned") =>
        /\ (Recognised(url) /\ (ShortLink(url) \/ HasV(url))) =>
              /\ clean.path = <<"watch">>
              /\ \E i \in 1..Len(clean.query) : clean.query[i] = <<"v", VideoOf(url)>>
              /\ QKeys(clean.query) \subseteq _SINGLE_VIDEO_SAFE_PARAMS
        /\ ~Recognised(url) => clean = url

====
